---- MODULE Spec2Model ----
(***************************************************************************)
(* A model of server/vosk_server.py: the POST /transcribe handler of the   *)
(* VOSK transcription server.  Each request is a process that walks the    *)
(* handler line by line; the temp directory (fs) and the loaded model are  *)
(* the only state shared between requests.  The transcoder (ffmpeg), the   *)
(* recognition engine (vosk) and the operating system are environments:    *)
(* every outcome they can produce is a choice drawn from a set.            *)
(***************************************************************************)
EXTENDS Integers, Sequences, FiniteSets, TLC

(***************************************************************************)
(* Bounds of the model and constants of the program.                       *)
(***************************************************************************)
\* number of request slots (concurrent requests in SpecConc)
NumReqs == 2
\* number of names the temp directory can hand out
NumPaths == 4
\* longest canonical audio, in chunks of ChunkFrames frames
MaxChunks == 2
\* how far the transcoder's error stream may exceed StderrLimit
MaxExtra == 2
\* wf.readframes(4000)
ChunkFrames == 4000
\* proc.stderr.decode("utf-8")[:2000]
StderrLimit == 2000
\* convert_to_wav(tmp_path, wav_path, sample_rate=16000)
SampleRate == 16000

Reqs == 1..NumReqs
Paths == 1..NumPaths
NoPath == 0

VARIABLES
    pc,        \* pc[r]: the line of transcribe() request r is at
    request,   \* request[r]: what the client sent (request.files)
    fs,        \* the temp directory: fs[p] is the file named p
    model,     \* the module-level vosk Model, loaded at startup
    locals,    \* locals[r]: tmp_path, wav_path, wf, results and the pending
               \* return value of the handler; gone when it returns
    rec,       \* rec[r]: the KaldiRecognizer of request r
    resp,      \* resp[r]: the response of request r
    obs        \* obs[r]: what request r did: files created, ffmpeg runs,
               \* sessions constructed, deletions attempted, and the value
               \* the try or except block had returned when the handler ended

vars == <<pc, request, fs, model, locals, rec, resp, obs>>

(***************************************************************************)
(* Text: a Python str is a sequence of one-character strings.              *)
(***************************************************************************)
IsSpace(c) == c = " "

RECURSIVE LStrip(_)
LStrip(s) == IF s = <<>> THEN s
             ELSE IF IsSpace(Head(s)) THEN LStrip(Tail(s)) ELSE s

RECURSIVE RStrip(_)
RStrip(s) == IF s = <<>> THEN s
             ELSE IF IsSpace(s[Len(s)]) THEN RStrip(SubSeq(s, 1, Len(s) - 1)) ELSE s

\* str.strip()
Strip(s) == RStrip(LStrip(s))

\* sep.join(parts)
RECURSIVE Join(_, _)
Join(sep, parts) ==
    IF parts = <<>> THEN <<>>
    ELSE IF Len(parts) = 1 THEN parts[1]
    ELSE parts[1] \o sep \o Join(sep, Tail(parts))

\* s[:n]
Take(s, n) == SubSeq(s, 1, IF Len(s) < n THEN Len(s) ELSE n)

\* the truth value of a str: [r for r in results if r]
Truthy(s) == s # <<>>

\* a slip: str(r.get('text')), which turns an absent text into "None"
GetText_None(obj) == IF "text" \in DOMAIN obj THEN obj.text ELSE <<"N", "o", "n", "e">>

\* r.get('text', '') on a parsed result object
GetText(obj) == IF "text" \in DOMAIN obj THEN obj.text ELSE <<>>

\* ' '.join([r for r in results if r]).strip()
JoinResults(results) == Strip(Join(<<" ">>, SelectSeq(results, Truthy)))

(***************************************************************************)
(* Files, audio and the objects of the engine.                             *)
(***************************************************************************)
\* what a file holds: nothing yet, an upload's bytes, or canonical audio
NoContent == [kind |-> "empty", id |-> 0, frames |-> 0]
NoFile == [exists |-> FALSE, owner |-> 0, suffix |-> "", content |-> NoContent]
File(r, suffix, content) ==
    [exists |-> TRUE, owner |-> r, suffix |-> suffix, content |-> content]

FreePaths == {p \in Paths : ~fs[p].exists}

\* lengths of canonical audio around the chunk boundaries
AudioLens == {0, 1} \cup {k * ChunkFrames : k \in 1..MaxChunks}
                    \cup {k * ChunkFrames + 1 : k \in 1..(MaxChunks - 1)}

\* the suffix of the upload's temp file: os.path.splitext(f.filename)[1] or '.tmp'
UploadSuffix(ext) == IF ext # "" THEN ext ELSE ".tmp"

\* what ffmpeg leaves in the output file when it exits with status 0
Transcode(content) == [kind |-> "wav", id |-> content.id, frames |-> content.frames]

\* the transcoder's error stream: n characters, the i-th being i
Stderr(n) == [i \in 1..n |-> i]
StderrLens == {0, 1, StderrLimit, StderrLimit + 1, StderrLimit + MaxExtra}

\* a completed subprocess.run: proc.returncode and proc.stderr
Proc(rc, n, valid) == [kind |-> "exit", returncode |-> rc, stderr |-> Stderr(n), utf8 |-> valid]
SpawnError == [kind |-> "oserror", returncode |-> 0, stderr |-> <<>>, utf8 |-> TRUE]

\* str(e) of an exception: the message and the text formatted into it
Message(msg, detail) == [msg |-> msg, detail |-> detail]

\* result objects of the engine, as json.loads returns them
Texts == {<<>>, <<" ">>, <<"a">>, <<"b", " ">>}
NoTextObj == [partial |-> <<>>]
ResultObjs == {[text |-> t] : t \in Texts} \cup {NoTextObj}
SilentObjs == {[text |-> <<>>], NoTextObj}

\* what rec.AcceptWaveform(data) can do: raise, return False, or return True
\* with rec.Result() giving obj
Accepted(kind, obj) == [kind |-> kind, obj |-> obj]
AcceptOutcomes ==
    {Accepted("raise", NoTextObj), Accepted("more", NoTextObj)}
        \cup {Accepted("unit", o) : o \in ResultObjs}

\* a deterministic engine: every chunk completes a unit whose text names the
\* audio it was cut from
Letters == <<"a", "b", "c", "d", "e">>
Word(id) == <<Letters[((id - 1) % Len(Letters)) + 1]>>
DetAccept(chunk) == Accepted("unit", [text |-> Word(chunk.id)])
DetFinal(log) == IF log = <<>> THEN [text |-> <<>>]
                 ELSE [text |-> Word(log[Len(log)].chunk.id)]

(***************************************************************************)
(* Environments: the outcomes the collaborators may produce.  FullEnv is   *)
(* every outcome; ConcEnv keeps the failures that leave files behind and a *)
(* deterministic engine.                                                   *)
(***************************************************************************)
FullEnv ==
    [hasFile  |-> BOOLEAN,
     exts     |-> {"", ".webm"},
     frames   |-> AudioLens,
     persist  |-> {"ok", "create_fail", "save_fail"},
     mkstemp  |-> {"ok", "fail"},
     ffmpeg   |-> {Proc(0, 1, TRUE), SpawnError}
                    \cup {Proc(1, n, v) : n \in StderrLens, v \in BOOLEAN},
     open     |-> {"ok", "fail"},
     session  |-> {"ok", "fail"},
     setwords |-> {"ok", "unsupported"},
     det      |-> FALSE,
     unlink   |-> {"ok", "fail"}]

ConcEnv ==
    [hasFile  |-> BOOLEAN,
     exts     |-> {".webm"},
     frames   |-> {1},
     persist  |-> {"ok", "save_fail"},
     mkstemp  |-> {"ok", "fail"},
     ffmpeg   |-> {Proc(0, 1, TRUE)},
     open     |-> {"ok"},
     session  |-> {"ok"},
     setwords |-> {"ok"},
     det      |-> TRUE,
     unlink   |-> {"ok", "fail"}]

\* what request r may carry: no file field, or a file whose payload is named r
Uploads(r, env) ==
    {[hasFile |-> FALSE, ext |-> "", payload |-> NoContent]
        : h \in env.hasFile \ {TRUE}}
    \cup {[hasFile |-> TRUE, ext |-> e,
           payload |-> [kind |-> "upload", id |-> r, frames |-> n]]
        : h \in env.hasFile \ {FALSE}, e \in env.exts, n \in env.frames}

(***************************************************************************)
(* Responses.                                                              *)
(***************************************************************************)
NoResp == [status |-> 0, body |-> [none |-> TRUE]]
\* jsonify({ 'error': 'file field is required' }), 400
BadRequest == [status |-> 400,
               body |-> [error |-> Message("file field is required", <<>>)]]
\* jsonify({ 'text': text })
Ok(text) == [status |-> 200, body |-> [text |-> text]]
\* jsonify({ 'error': str(e) }), 500
ServerError(msg) == [status |-> 500, body |-> [error |-> msg]]
\* an exception that leaves transcribe(): the framework answers 500 with its
\* own page, not a JSON body of the handler
Uncaught == [status |-> 500, body |-> [html |-> "Internal Server Error"]]

(***************************************************************************)
(* Initial state: the model is loaded, the temp directory holds nothing of *)
(* the server, no request has arrived.                                     *)
(***************************************************************************)
NoWave == [open |-> FALSE, audio |-> NoContent, pos |-> 0]
NoLocals == [tmp_path |-> NoPath, wav_path |-> NoPath, wf |-> NoWave,
             results |-> <<>>, ret |-> NoResp]
NoRec == [made |-> FALSE, rate |-> 0, words |-> "unset", log |-> <<>>, finals |-> <<>>]
NoObs == [created |-> 0, ffmpeg |-> <<>>, sessions |-> 0, unlinks |-> <<>>,
          primary |-> NoResp]
NoRequest == [hasFile |-> FALSE, ext |-> "", payload |-> NoContent]

Init ==
    /\ pc = [r \in Reqs |-> "idle"]
    /\ request = [r \in Reqs |-> NoRequest]
    /\ fs = [p \in Paths |-> NoFile]
    /\ model = "loaded"
    /\ locals = [r \in Reqs |-> NoLocals]
    /\ rec = [r \in Reqs |-> NoRec]
    /\ resp = [r \in Reqs |-> NoResp]
    /\ obs = [r \in Reqs |-> NoObs]

(***************************************************************************)
(* The handler, transcribe(), one action per step.                         *)
(***************************************************************************)
\* a slip: the error stream formatted into the message without the [:2000]
FfmpegFailed_Unbounded(proc) ==
    IF proc.utf8
    THEN [msg |-> "ffmpeg failed: ", detail |-> proc.stderr]
    ELSE [msg |-> "'utf-8' codec can't decode byte", detail |-> <<>>]

\* line 46: the error convert_to_wav raises for a process that exited non-zero
\* (decoding bytes that are not UTF-8 raises UnicodeDecodeError instead)
FfmpegFailed(proc) ==
    IF proc.utf8
    THEN Message("ffmpeg failed: ", Take(proc.stderr, StderrLimit))
    ELSE Message("'utf-8' codec can't decode byte", <<>>)

\* lines 44-46: whether convert_to_wav raises for this run of ffmpeg, and what
convert_to_wav(proc) ==
    IF proc.kind = "oserror"
    THEN [raised |-> TRUE, msg |-> Message("No such file or directory: 'ffmpeg'", <<>>)]
    ELSE IF proc.returncode # 0
    THEN [raised |-> TRUE, msg |-> FfmpegFailed(proc)]
    ELSE [raised |-> FALSE, msg |-> Message("", <<>>)]

\* lines 80-81: an exception raised inside the try block becomes the return
\* value: a 500 JSON body; the finally block runs before it is returned
Caught(l, msg) == [l EXCEPT !.ret = ServerError(msg)]

\* an exception raised before the try block leaves the handler at once
Escapes(r) ==
    /\ resp' = [resp EXCEPT ![r] = Uncaught]
    /\ locals' = [locals EXCEPT ![r] = NoLocals]
    /\ pc' = [pc EXCEPT ![r] = "done"]

\* a slip: a name built without asking whether a file of that name exists
TempNames_NotExclusive == Paths

\* the name tempfile picks: one under which no file exists (O_EXCL); it gives
\* up with FileExistsError when it finds none
TempNames == FreePaths

\* a slip: the check of the file field left out
MissingFile_Never(up) == FALSE

\* line 51: 'file' not in request.files
MissingFile(up) == ~up.hasFile

\* lines 50-53: the request arrives; without the file field it is answered 400
Receive(r, env) ==
    /\ pc[r] = "idle"
    /\ \E up \in Uploads(r, env) :
        /\ request' = [request EXCEPT ![r] = up]
        /\ IF MissingFile(up)
           THEN /\ resp' = [resp EXCEPT ![r] = BadRequest]
                /\ pc' = [pc EXCEPT ![r] = "done"]
           ELSE /\ pc' = [pc EXCEPT ![r] = "persist"]
                /\ UNCHANGED resp
    /\ UNCHANGED <<fs, model, locals, rec, obs>>

\* lines 55-57: NamedTemporaryFile(delete=False) creates the upload's file and
\* f.save writes the payload into it; both are outside the try block
Persist(r, env) ==
    /\ pc[r] = "persist"
    /\ \E o \in env.persist :
        IF o = "create_fail" \/ TempNames = {}
        THEN /\ Escapes(r)
             /\ UNCHANGED <<fs, obs>>
        ELSE \E p \in TempNames :
            /\ obs' = [obs EXCEPT ![r].created = @ + 1]
            /\ IF o = "save_fail"
               THEN /\ fs' = [fs EXCEPT ![p] =
                                File(r, UploadSuffix(request[r].ext), NoContent)]
                    /\ Escapes(r)
               ELSE /\ fs' = [fs EXCEPT ![p] =
                                File(r, UploadSuffix(request[r].ext), request[r].payload)]
                    /\ locals' = [locals EXCEPT ![r].tmp_path = p]
                    /\ pc' = [pc EXCEPT ![r] = "alloc"]
                    /\ UNCHANGED resp
    /\ UNCHANGED <<request, model, rec>>

\* lines 59-60: tempfile.mkstemp(suffix='.wav') creates the output file, still
\* outside the try block
Alloc(r, env) ==
    /\ pc[r] = "alloc"
    /\ \E o \in env.mkstemp :
        IF o = "fail" \/ TempNames = {}
        THEN /\ Escapes(r)
             /\ UNCHANGED <<fs, obs>>
        ELSE \E p \in TempNames :
            /\ obs' = [obs EXCEPT ![r].created = @ + 1]
            /\ fs' = [fs EXCEPT ![p] = File(r, ".wav", NoContent)]
            /\ locals' = [locals EXCEPT ![r].wav_path = p]
            /\ pc' = [pc EXCEPT ![r] = "convert"]
            /\ UNCHANGED resp
    /\ UNCHANGED <<request, model, rec>>

\* line 62 and convert_to_wav: ffmpeg reads the file at tmp_path and, when it
\* exits with status 0, has written the canonical audio to the file at wav_path
Convert(r, env) ==
    /\ pc[r] = "convert"
    /\ \E proc \in env.ffmpeg :
        /\ obs' = [obs EXCEPT ![r].ffmpeg = Append(@, proc)]
        /\ IF convert_to_wav(proc).raised
           THEN /\ locals' = [locals EXCEPT ![r] = Caught(@, convert_to_wav(proc).msg)]
                /\ pc' = [pc EXCEPT ![r] = "unlink_tmp"]
                /\ UNCHANGED fs
           ELSE /\ fs' = [fs EXCEPT ![locals[r].wav_path].content =
                                Transcode(fs[locals[r].tmp_path].content)]
                /\ pc' = [pc EXCEPT ![r] = "open"]
                /\ UNCHANGED locals
    /\ UNCHANGED <<request, model, rec, resp>>

\* a slip: wf.readframes(wf.getnframes()), the whole rest of the file at once
readframes_All(wf, n) ==
    [id |-> wf.audio.id, lo |-> wf.pos, hi |-> wf.audio.frames]

\* wf.readframes(n): the frames from the read position on, at most n of them
readframes(wf, n) ==
    [id |-> wf.audio.id,
     lo |-> wf.pos,
     hi |-> IF wf.audio.frames - wf.pos < n THEN wf.audio.frames ELSE wf.pos + n]

\* len(data)
FrameCount(data) == data.hi - data.lo

\* what rec.AcceptWaveform(data), and rec.Result() after it, may give
EngineAccept(env, data) == IF env.det THEN {DetAccept(data)} ELSE AcceptOutcomes

\* what rec.FinalResult() may give; an engine that was fed no audio has
\* recognised nothing
EngineFinal(env, log) ==
    IF env.det THEN {Accepted("unit", DetFinal(log))}
    ELSE {Accepted("raise", NoTextObj)}
            \cup {Accepted("unit", o) : o \in IF log = <<>> THEN SilentObjs ELSE ResultObjs}

\* lines 64-68: wave.open, KaldiRecognizer(model, wf.getframerate()),
\* rec.SetWords(True), results = []; each of the three calls may raise
StartSession(r, env) ==
    /\ pc[r] = "open"
    /\ \E o \in env.open, s \in env.session, w \in env.setwords :
        LET file == fs[locals[r].wav_path]
            opened == o = "ok" /\ file.exists /\ file.content.kind = "wav"
            l == [locals[r] EXCEPT
                    !.wf = [open |-> TRUE, audio |-> file.content, pos |-> 0]]
        IN  IF ~opened
            THEN /\ locals' = [locals EXCEPT ![r] =
                                    Caught(@, Message("wave.open failed", <<>>))]
                 /\ pc' = [pc EXCEPT ![r] = "unlink_tmp"]
                 /\ UNCHANGED <<rec, obs>>
            ELSE IF s = "fail"
            THEN /\ locals' = [locals EXCEPT ![r] =
                                    Caught(l, Message("Failed to create a recognizer", <<>>))]
                 /\ pc' = [pc EXCEPT ![r] = "unlink_tmp"]
                 /\ UNCHANGED <<rec, obs>>
            ELSE /\ obs' = [obs EXCEPT ![r].sessions = @ + 1]
                 /\ rec' = [rec EXCEPT ![r] =
                                [made |-> TRUE, rate |-> SampleRate,
                                 words |-> IF w = "ok" THEN "on" ELSE "unsupported",
                                 log |-> <<>>, finals |-> <<>>]]
                 /\ IF w = "ok"
                    THEN /\ locals' = [locals EXCEPT ![r] = l]
                         /\ pc' = [pc EXCEPT ![r] = "stream"]
                    ELSE /\ locals' = [locals EXCEPT ![r] =
                                    Caught(l, Message("SetWords is not supported", <<>>))]
                         /\ pc' = [pc EXCEPT ![r] = "unlink_tmp"]
    /\ UNCHANGED <<request, fs, model, resp>>

\* lines 69-75: one turn of the loop: read up to 4000 frames, leave the loop on
\* an empty read, else submit the chunk and keep the text of a completed unit
ReadChunk(r, env) ==
    /\ pc[r] = "stream"
    /\ LET data == readframes(locals[r].wf, ChunkFrames)
           l == [locals[r] EXCEPT !.wf.pos = data.hi]
       IN  IF FrameCount(data) = 0
           THEN /\ pc' = [pc EXCEPT ![r] = "final"]
                /\ UNCHANGED <<locals, rec>>
           ELSE \E a \in EngineAccept(env, data) :
                /\ rec' = [rec EXCEPT ![r].log = Append(@, [chunk |-> data, got |-> a])]
                /\ IF a.kind = "raise"
                   THEN /\ locals' = [locals EXCEPT ![r] =
                                    Caught(l, Message("AcceptWaveform failed", <<>>))]
                        /\ pc' = [pc EXCEPT ![r] = "unlink_tmp"]
                   ELSE /\ locals' = [locals EXCEPT ![r] =
                                    IF a.kind = "unit"
                                    THEN [l EXCEPT !.results = Append(@, GetText(a.obj))]
                                    ELSE l]
                        /\ UNCHANGED pc
    /\ UNCHANGED <<request, fs, model, resp, obs>>

\* lines 76-79: the final result is appended, the fragments are joined and the
\* 200 response becomes the return value; the finally block runs next
Finish(r, env) ==
    /\ pc[r] = "final"
    /\ \E a \in EngineFinal(env, rec[r].log) :
        /\ rec' = [rec EXCEPT ![r].finals =
                        Append(@, [pos |-> locals[r].wf.pos, got |-> a])]
        /\ IF a.kind = "raise"
           THEN locals' = [locals EXCEPT ![r] =
                                Caught(@, Message("FinalResult failed", <<>>))]
           ELSE LET results == Append(locals[r].results, GetText(a.obj))
                IN  locals' = [locals EXCEPT ![r].results = results,
                                             ![r].ret = Ok(JoinResults(results))]
    /\ pc' = [pc EXCEPT ![r] = "unlink_tmp"]
    /\ UNCHANGED <<request, fs, model, resp, obs>>

\* os.unlink(path): removes the file of that name, or raises
Unlink(path, o) == IF o = "ok" /\ fs[path].exists
                   THEN [fs EXCEPT ![path] = NoFile] ELSE fs

\* what the handler returns after the finally block: the value the try or
\* except block returned, whatever the deletions raised
Returned(l, removedTmp, removedWav) == l.ret

\* lines 83-86: finally: os.unlink(tmp_path), whatever it raises is dropped
UnlinkTmp(r, env) ==
    /\ pc[r] = "unlink_tmp"
    /\ \E o \in env.unlink :
        /\ fs' = Unlink(locals[r].tmp_path, o)
        /\ obs' = [obs EXCEPT ![r].unlinks =
                        Append(@, [file |-> "tmp", removed |-> fs' # fs])]
    /\ pc' = [pc EXCEPT ![r] = "unlink_wav"]
    /\ UNCHANGED <<request, model, locals, rec, resp>>

\* lines 87-90: finally: os.unlink(wav_path), whatever it raises is dropped;
\* then the handler returns
UnlinkWav(r, env) ==
    /\ pc[r] = "unlink_wav"
    /\ \E o \in env.unlink :
        /\ fs' = Unlink(locals[r].wav_path, o)
        /\ obs' = [obs EXCEPT ![r].unlinks =
                        Append(@, [file |-> "wav", removed |-> fs' # fs]),
                               ![r].primary = locals[r].ret]
        /\ resp' = [resp EXCEPT ![r] =
                        Returned(locals[r], obs[r].unlinks[1].removed, fs' # fs)]
    /\ locals' = [locals EXCEPT ![r] = NoLocals]
    /\ pc' = [pc EXCEPT ![r] = "done"]
    /\ UNCHANGED <<request, model, rec>>

(***************************************************************************)
(* Specifications.  Spec: one request against every outcome of the         *)
(* collaborators.  SpecConc: NumReqs requests in flight at once, steps     *)
(* interleaved in any order, against ConcEnv.                              *)
(***************************************************************************)
Handle(r, env) ==
    \/ Receive(r, env)
    \/ Persist(r, env)
    \/ Alloc(r, env)
    \/ Convert(r, env)
    \/ StartSession(r, env)
    \/ ReadChunk(r, env)
    \/ Finish(r, env)
    \/ UnlinkTmp(r, env)
    \/ UnlinkWav(r, env)

Next == Handle(1, FullEnv)

Spec == Init /\ [][Next]_vars

NextConc == \E r \in Reqs : Handle(r, ConcEnv)

SpecConc == Init /\ [][NextConc]_vars

(***************************************************************************)
(* Vocabulary of the properties.                                           *)
(***************************************************************************)
InFinally(r) == pc[r] \in {"unlink_tmp", "unlink_wav"}
Ended(r) == pc[r] = "done"
\* the outcome of the request once the try block is left: the pending return
\* value while the finally block runs, the response after
Outcome(r) == IF InFinally(r) THEN locals[r].ret ELSE resp[r]
Decided(r) == InFinally(r) \/ Ended(r)
Owns(r, p) == fs[p].exists /\ fs[p].owner = r
IsPrefix(s, t) == Len(s) <= Len(t) /\ \A i \in 1..Len(s) : s[i] = t[i]
NoOuterSpace(t) == t = <<>> \/ (~IsSpace(t[1]) /\ ~IsSpace(t[Len(t)]))
Removals(r) == {i \in DOMAIN obs[r].unlinks : obs[r].unlinks[i].removed}
Min(a, b) == IF a < b THEN a ELSE b

(***************************************************************************)
(* C1.  Every request that gets past the file-field check has, once it has *)
(* ended, on every exit path, no temporary file of its own left on disk:   *)
(* each file it created was deleted, exactly once.                         *)
(***************************************************************************)
C1_TempFilesDeleted ==
    \A r \in Reqs :
        (Ended(r) /\ request[r].hasFile) =>
            /\ \A p \in Paths : ~Owns(r, p)
            /\ Cardinality(Removals(r)) = obs[r].created

(***************************************************************************)
(* C2.  Every request ends with a JSON response carrying exactly one of    *)
(* text (status 200) or error (status 400 or 500); no error of the         *)
(* pipeline leaves the handler uncaught.                                   *)
(***************************************************************************)
C2_JsonTextOrError ==
    \A r \in Reqs :
        Ended(r) =>
            \/ resp[r].status = 200 /\ DOMAIN resp[r].body = {"text"}
            \/ resp[r].status \in {400, 500} /\ DOMAIN resp[r].body = {"error"}

(***************************************************************************)
(* C3.  A request without the file field is answered 400 with the body     *)
(* {"error": "file field is required"} and does no downstream work: it     *)
(* creates no temp file, runs no transcoder and constructs no session.     *)
(***************************************************************************)
C3_MissingFileIs400 ==
    \A r \in Reqs :
        (pc[r] # "idle" /\ ~request[r].hasFile) =>
            /\ Ended(r)
            /\ resp[r] = BadRequest
            /\ obs[r] = NoObs
            /\ ~rec[r].made
            /\ locals[r] = NoLocals
            /\ \A p \in Paths : ~Owns(r, p)

C3_Witness == \E r \in Reqs : Ended(r) /\ ~request[r].hasFile /\ resp[r].status = 400

(***************************************************************************)
(* C4.  On success, a fragment is part of the output only if it is         *)
(* non-empty after trimming: the text is the fragments that are non-empty  *)
(* after trimming, joined by exactly one space, and it has no leading or   *)
(* trailing whitespace.                                                    *)
(***************************************************************************)
NonBlank(t) == Strip(t) # <<>>

C4_TrimmedSingleSpaced ==
    \A r \in Reqs :
        (InFinally(r) /\ locals[r].ret.status = 200) =>
            LET text == locals[r].ret.body.text
            IN  /\ text = Strip(Join(<<" ">>, SelectSeq(locals[r].results, NonBlank)))
                /\ NoOuterSpace(text)

(***************************************************************************)
(* C5.  The transcoder is run at most once per request.  When it exits     *)
(* non-zero the request fails with status 500, the error message carries   *)
(* at most the first 2000 characters of its error stream, and no session   *)
(* is constructed; when it exits zero, conversion raises nothing: the      *)
(* handler goes on to open the output, which holds the canonical audio.    *)
(***************************************************************************)
C5_TranscoderFailure ==
    \A r \in Reqs :
        /\ Len(obs[r].ffmpeg) <= 1
        /\ \A i \in DOMAIN obs[r].ffmpeg :
            LET proc == obs[r].ffmpeg[i]
            IN  /\ (proc.kind = "exit" /\ proc.returncode # 0) =>
                    /\ Decided(r)
                    /\ Outcome(r).status = 500
                    /\ DOMAIN Outcome(r).body = {"error"}
                    /\ Len(Outcome(r).body.error.detail) <= StderrLimit
                    /\ IsPrefix(Outcome(r).body.error.detail, proc.stderr)
                    /\ obs[r].sessions = 0
                    /\ ~rec[r].made
                /\ (proc.kind = "exit" /\ proc.returncode = 0) =>
                    /\ pc[r] = "open" =>
                        /\ resp[r] = NoResp /\ locals[r].ret = NoResp
                        /\ fs[locals[r].wav_path].content = Transcode(request[r].payload)
                    /\ (Decided(r) /\ Outcome(r).status = 500) =>
                        Outcome(r).body.error.msg # "ffmpeg failed: "

C5_Witness ==
    \E r \in Reqs :
        /\ Ended(r)
        /\ Len(obs[r].ffmpeg) = 1
        /\ obs[r].ffmpeg[1].returncode # 0
        /\ obs[r].ffmpeg[1].utf8
        /\ Len(obs[r].ffmpeg[1].stderr) > StderrLimit
        /\ Len(resp[r].body.error.detail) = StderrLimit

(***************************************************************************)
(* C6.  Cleanup never changes the outcome: after every outcome of a        *)
(* request that got past the file-field check the deletion of both temp    *)
(* files is attempted, the second whether or not the first succeeded, and  *)
(* the response is the one the try or except block had produced.           *)
(***************************************************************************)
C6_CleanupAfterEveryOutcome ==
    \A r \in Reqs :
        (Ended(r) /\ obs[r].created > 0) =>
            /\ Len(obs[r].unlinks) = 2
            /\ obs[r].unlinks[1].file = "tmp"
            /\ obs[r].unlinks[2].file = "wav"
            /\ resp[r] = obs[r].primary

\* The part of C6 that the finally block decides: a request that entered the
\* try block attempts both deletions, in order, whatever the first did, and
\* returns the value the try or except block produced.
CleanupKeepsOutcome ==
    \A r \in Reqs :
        /\ (Ended(r) /\ obs[r].created = 2) =>
            /\ Len(obs[r].unlinks) = 2
            /\ obs[r].unlinks[1].file = "tmp"
            /\ obs[r].unlinks[2].file = "wav"
            /\ resp[r] = obs[r].primary
            /\ resp[r].status \in {200, 500}
        /\ pc[r] = "unlink_wav" => Len(obs[r].unlinks) = 1

CleanupKeepsOutcome_Witness ==
    \E r \in Reqs :
        /\ Ended(r)
        /\ Len(obs[r].unlinks) = 2
        /\ ~obs[r].unlinks[1].removed
        /\ ~obs[r].unlinks[2].removed
        /\ resp[r].status = 200

(***************************************************************************)
(* C7.  Silence is not an error: when the final result was obtained and    *)
(* the canonical audio has zero frames, or every completed unit and the    *)
(* final result carry an empty or absent text, the outcome is status 200   *)
(* with text equal to the empty string.                                    *)
(***************************************************************************)
Silent(obj) == "text" \notin DOMAIN obj \/ obj.text = <<>>
UnitsOf(log) == SelectSeq(log, LAMBDA e : e.got.kind = "unit")
FinalObtained(r) ==
    rec[r].made /\ Len(rec[r].finals) = 1 /\ rec[r].finals[1].got.kind = "unit"

C7_SilenceIsEmptyText ==
    \A r \in Reqs :
        (/\ Decided(r)
         /\ FinalObtained(r)
         /\ \/ request[r].payload.frames = 0
            \/ /\ \A i \in DOMAIN rec[r].log :
                    rec[r].log[i].got.kind = "unit" => Silent(rec[r].log[i].got.obj)
               /\ Silent(rec[r].finals[1].got.obj))
        => Outcome(r) = Ok(<<>>)

C7_Witness ==
    \E r \in Reqs :
        /\ Ended(r)
        /\ FinalObtained(r)
        /\ request[r].payload.frames > ChunkFrames
        /\ Len(UnitsOf(rec[r].log)) = 2
        /\ rec[r].log[1].got.obj = NoTextObj
        /\ rec[r].log[2].got.obj = [text |-> <<>>]
        /\ resp[r] = Ok(<<>>)

C7_WitnessNoFrames ==
    \E r \in Reqs :
        /\ Ended(r)
        /\ FinalObtained(r)
        /\ request[r].payload.frames = 0
        /\ rec[r].log = <<>>
        /\ resp[r] = Ok(<<>>)

(***************************************************************************)
(* C9.  Word-level detail is best-effort: a request whose SetWords call    *)
(* fails still completes successfully.                                     *)
(***************************************************************************)
C9_SetWordsBestEffort ==
    \A r \in Reqs :
        (Ended(r) /\ rec[r].made /\ rec[r].words = "unsupported") =>
            resp[r].status = 200

(***************************************************************************)
(* C10.  The streaming loop: the chunks submitted are the consecutive      *)
(* ranges of at most 4000 frames of the audio, none empty, each once and   *)
(* in file order; the loop is left only when the audio is exhausted; the   *)
(* final result is requested at most once and only then; and the           *)
(* fragments are the texts of the completed units in the order of their    *)
(* chunks, the final result's text last.                                   *)
(***************************************************************************)
RECURSIVE TextsOf(_)
TextsOf(entries) ==
    IF entries = <<>> THEN <<>>
    ELSE <<GetText(Head(entries).got.obj)>> \o TextsOf(Tail(entries))

ChunksNeeded(n) == (n + ChunkFrames - 1) \div ChunkFrames

C10_StreamingOrder ==
    \A r \in Reqs :
        rec[r].made =>
            LET log == rec[r].log
                n == request[r].payload.frames
            IN  /\ \A i \in DOMAIN log :
                    /\ log[i].chunk.lo = (i - 1) * ChunkFrames
                    /\ log[i].chunk.hi = Min(i * ChunkFrames, n)
                    /\ log[i].chunk.lo < log[i].chunk.hi
                /\ Len(log) <= ChunksNeeded(n)
                /\ pc[r] \in {"stream", "final"} \cup {"unlink_tmp", "unlink_wav"} =>
                    locals[r].wf.pos = Min(Len(log) * ChunkFrames, n)
                /\ pc[r] = "final" => Len(log) = ChunksNeeded(n)
                /\ pc[r] \in {"stream", "final"} =>
                    /\ rec[r].finals = <<>>
                    /\ locals[r].results = TextsOf(UnitsOf(log))
                /\ Len(rec[r].finals) <= 1
                /\ \A i \in DOMAIN rec[r].finals :
                    /\ rec[r].finals[i].pos = n
                    /\ Len(log) = ChunksNeeded(n)
                /\ (InFinally(r) /\ locals[r].ret.status = 200) =>
                    /\ Len(rec[r].finals) = 1
                    /\ locals[r].results =
                          TextsOf(UnitsOf(log)) \o <<GetText(rec[r].finals[1].got.obj)>>

C10_Witness ==
    \E r \in Reqs :
        /\ InFinally(r)
        /\ locals[r].ret.status = 200
        /\ request[r].payload.frames = ChunkFrames + 1
        /\ Len(rec[r].log) = 2
        /\ rec[r].log[2].chunk = [id |-> r, lo |-> ChunkFrames, hi |-> ChunkFrames + 1]
        /\ locals[r].results = <<<<"a">>, <<"b", " ">>, <<"a">>>>

(***************************************************************************)
(* C8.  Under any interleaving of the requests: the temp paths in use by   *)
(* two requests are distinct; every path a request uses names a file that  *)
(* request created, so it reads, overwrites and deletes only its own       *)
(* files; its session is fed only chunks of its own payload; its           *)
(* transcript is the one its own payload gives; and the loaded model is    *)
(* never changed.                                                          *)
(***************************************************************************)
\* the paths request r still uses: tmp_path until its deletion was attempted,
\* wav_path likewise
InUse(r) ==
    (IF pc[r] \in {"alloc", "convert", "open", "stream", "final", "unlink_tmp"}
     THEN {locals[r].tmp_path} ELSE {})
    \cup
    (IF pc[r] \in {"convert", "open", "stream", "final", "unlink_tmp", "unlink_wav"}
     THEN {locals[r].wav_path} ELSE {})

\* the transcript of a payload under the deterministic engine: one word per
\* chunk and one for the final result, nothing for empty audio
ExpectedText(payload) ==
    IF payload.frames = 0 THEN <<>>
    ELSE Join(<<" ">>, [i \in 1..(ChunksNeeded(payload.frames) + 1) |-> Word(payload.id)])

C8_Isolation ==
    /\ model = "loaded"
    /\ \A r \in Reqs :
        /\ \A p \in InUse(r) : p \in Paths /\ Owns(r, p)
        /\ pc[r] \in {"alloc", "convert", "open", "stream", "final", "unlink_tmp"} =>
            fs[locals[r].tmp_path].content = request[r].payload
        /\ pc[r] \in {"open", "stream", "final", "unlink_tmp", "unlink_wav"} =>
            fs[locals[r].wav_path].content = Transcode(request[r].payload)
        /\ \A q \in Reqs \ {r} : InUse(r) \cap InUse(q) = {}
        /\ locals[r].wf.open => locals[r].wf.audio = Transcode(request[r].payload)
        /\ \A i \in DOMAIN rec[r].log : rec[r].log[i].chunk.id = request[r].payload.id
        /\ (Decided(r) /\ Outcome(r).status = 200) =>
            Outcome(r) = Ok(ExpectedText(request[r].payload))
        /\ Cardinality(Removals(r)) <= obs[r].created

C8_Witness ==
    \E r \in Reqs, q \in Reqs :
        /\ r # q
        /\ pc[r] = "unlink_tmp"
        /\ pc[q] = "final"
        /\ locals[r].ret = Ok(<<"a", " ", "a">>)
        /\ Len(rec[q].log) = 1
        /\ Cardinality(InUse(r) \cup InUse(q)) = 4

====
